---- MODULE Spec2Model ----
(***************************************************************************)
(* CRSF telemetry decoder (src/src/parser.py): the serial read loop of     *)
(* read_crsf_serial with its rolling byte buffer, and parse_crsf_packet    *)
(* with the CRC-8/DVB-S2 check, as a state machine.                        *)
(*                                                                         *)
(* Bytes are naturals 0..255, byte strings are sequences (1-based here,    *)
(* 0-based in the source: source index i is index i+1 below).              *)
(***************************************************************************)
EXTENDS Integers, Sequences, FiniteSets, TLC

(***************************************************************************)
(* Program constants.                                                      *)
(***************************************************************************)
CRSF_SYNC == 200

CRSF_MAX_PACKET_SIZE == 64

GPS == 2

BATTERY_SENSOR == 8

LINK_STATISTICS == 20

ATTITUDE == 30

FLIGHT_MODE == 33

(***************************************************************************)
(* Bounds of the model.  The serial line delivers at most MaxStream single *)
(* bytes drawn from Alphabet and, once BurstAfter of them have been        *)
(* delivered, at most one long burst of BurstLen equal bytes, so that      *)
(* buffers of 64 bytes and more, and runs of several frames, are reached.  *)
(***************************************************************************)
MaxStream == 5

BurstLen == 60

BurstAfter == 3

\* As a length byte 0x00 declares a total length below 4, 0x02 the smallest
\* frame (4), 0x3E the largest (64), 0x7F and 0xC8 lengths above 64.  0xC8
\* is the sync byte; 0x02 is also the GPS type and 0x7F its CRC, 0x00 an
\* unknown type and its own CRC.
Alphabet == {0, 2, 62, 127, CRSF_SYNC}

\* a burst of 0x00 is the payload of a long frame; a burst of 0x02 is a run
\* of 4-byte candidates (each declares the length 0x02 + 2)
BurstBytes == {0, 2}

Burst(b) == [i \in 1..BurstLen |-> b]

(***************************************************************************)
(* Integer helpers: Python's ^ and & on non-negative ints.                 *)
(***************************************************************************)
RECURSIVE BitXor(_, _)
BitXor(a, b) ==
    IF a = 0 THEN b
    ELSE IF b = 0 THEN a
    ELSE (((a % 2) + (b % 2)) % 2) + (2 * BitXor(a \div 2, b \div 2))

RECURSIVE BitAnd(_, _)
BitAnd(a, b) ==
    IF a = 0 \/ b = 0 THEN 0
    ELSE ((a % 2) * (b % 2)) + (2 * BitAnd(a \div 2, b \div 2))

\* Python slice s[lo:hi] with 0 <= lo, 0 <= hi (already resolved from a
\* negative index by the caller); out-of-range ends are clamped.
PySlice(s, lo, hi) ==
    LET h == IF hi > Len(s) THEN Len(s) ELSE hi
    IN  IF lo >= h THEN <<>> ELSE SubSeq(s, lo + 1, h)

\* s[-k] resolved to a 0-based end index, as Python resolves s[a:-k].
NegIndex(s, k) == IF Len(s) - k < 0 THEN 0 ELSE Len(s) - k

(***************************************************************************)
(* Python values and call results.  A call either returns a value or       *)
(* raises; an int and a bytearray are different kinds of value.            *)
(***************************************************************************)
PyInt(n) == [type |-> "int", val |-> n]

PyBytes(s) == [type |-> "bytearray", val |-> s]

Return(v) == [raised |-> "none", val |-> v]

Raise(e) == [raised |-> e, val |-> 0]

(***************************************************************************)
(* crc8_dvb_s2(crc, byte): one CRC-8/DVB-S2 step.  `crc ^= byte` is        *)
(* defined for two ints only: with a bytearray operand Python raises       *)
(* TypeError.  The shifts are not masked inside the loop, only the result. *)
(***************************************************************************)
RECURSIVE Crc8Loop(_, _)
Crc8Loop(crc, n) ==
    IF n = 0 THEN crc
    ELSE Crc8Loop(IF BitAnd(crc, 128) # 0
                  THEN BitXor(crc * 2, 213)
                  ELSE crc * 2, n - 1)

crc8_dvb_s2(crc, byte) ==
    IF byte.type # "int"
    THEN Raise("TypeError")
    ELSE Return(BitAnd(Crc8Loop(BitXor(crc, byte.val), 8), 255))

\* crc8_check(packet): crc8_dvb_s2(0, packet[2:-1]) == packet[-1].  The
\* second argument is the bytearray slice itself, not one of its bytes.
crc8_check(packet) ==
    LET r == crc8_dvb_s2(0, PyBytes(PySlice(packet, 2, NegIndex(packet, 1))))
    IN  IF r.raised # "none" THEN r
        ELSE Return(r.val = packet[Len(packet)])

(***************************************************************************)
(* struct.unpack of a big-endian field: struct.error unless the slice has  *)
(* exactly the size of the format.                                         *)
(***************************************************************************)
RECURSIVE BigEndianFrom(_, _)
BigEndianFrom(acc, s) ==
    IF s = <<>> THEN acc
    ELSE BigEndianFrom((acc * 256) + s[1], Tail(s))

\* struct.unpack(">H", s): unsigned, size n
UnpackUnsigned(s, n) ==
    IF Len(s) # n THEN Raise("struct.error")
    ELSE Return(BigEndianFrom(0, s))

\* struct.unpack(">i", s), (">h", s), ("b", s): two's complement, size n
UnpackSigned(s, n) ==
    IF Len(s) # n THEN Raise("struct.error")
    ELSE Return(BigEndianFrom(IF s[1] >= 128 THEN s[1] - 256 ELSE s[1], Tail(s)))

\* packet[i] (0-based): IndexError past the end
Index(packet, i) ==
    IF i >= Len(packet) THEN Raise("IndexError") ELSE Return(packet[i + 1])

\* The first call of a list that raised, or "none"
RECURSIVE FirstRaised(_)
FirstRaised(rs) ==
    IF rs = <<>> THEN "none"
    ELSE IF rs[1].raised # "none" THEN rs[1].raised
    ELSE FirstRaised(Tail(rs))

\* What a call of parse_crsf_packet leaves behind: the line it printed
\* (none if it raised before printing) and the exception it raised.
Printed(line) == [raised |-> "none", line |-> line]

Raised(e) == [raised |-> e, line |-> [kind |-> "none"]]

\* A value v / d printed as a float: kept as the exact quotient.
Ratio(v, d) == [num |-> v, den |-> d]

(***************************************************************************)
(* parse_crsf_packet, lines 60-92: the dispatch on the packet type, reached*)
(* once the CRC check has returned True.  Statements run in source order,  *)
(* so the first one that raises decides the exception.                     *)
(***************************************************************************)
ParseLinkStatistics(packet) ==
    LET rssi1 == Index(packet, 3)
        rssi2 == Index(packet, 4)
        lq    == Index(packet, 5)
        raw   == Index(packet, 6)
        e     == FirstRaised(<<rssi1, rssi2, lq, raw>>)
    IN  IF e # "none" THEN Raised(e)
        ELSE Printed([kind |-> "LinkStatistics", rssi1 |-> rssi1.val,
                      rssi2 |-> rssi2.val, lq |-> lq.val,
                      snr |-> UnpackSigned(<<raw.val>>, 1).val])

ParseBattery(packet) ==
    LET voltage == UnpackUnsigned(PySlice(packet, 3, 5), 2)
    IN  IF voltage.raised # "none" THEN Raised(voltage.raised)
        ELSE Printed([kind |-> "Battery", voltage |-> Ratio(voltage.val, 10)])

ParseGps(packet) ==
    LET lat      == UnpackSigned(PySlice(packet, 3, 7), 4)
        lon      == UnpackSigned(PySlice(packet, 7, 11), 4)
        speed    == UnpackUnsigned(PySlice(packet, 11, 13), 2)
        altitude == UnpackUnsigned(PySlice(packet, 15, 17), 2)
        sats     == Index(packet, 17)
        e        == FirstRaised(<<lat, lon, speed, altitude, sats>>)
    IN  IF e # "none" THEN Raised(e)
        ELSE Printed([kind |-> "GPS", lat |-> Ratio(lat.val, 10000000),
                      lon |-> Ratio(lon.val, 10000000),
                      speed |-> Ratio(speed.val, 36),
                      altitude |-> altitude.val - 1000, sats |-> sats.val])

ParseAttitude(packet) ==
    LET pitch == UnpackSigned(PySlice(packet, 3, 5), 2)
        roll  == UnpackSigned(PySlice(packet, 5, 7), 2)
        yaw   == UnpackSigned(PySlice(packet, 7, 9), 2)
        e     == FirstRaised(<<pitch, roll, yaw>>)
    IN  IF e # "none" THEN Raised(e)
        ELSE Printed([kind |-> "Attitude", pitch |-> Ratio(pitch.val, 10000),
                      roll |-> Ratio(roll.val, 10000),
                      yaw |-> Ratio(yaw.val, 10000)])

\* ''.join(map(chr, packet[3:-2])): the text is kept as its code points
ParseFlightMode(packet) ==
    Printed([kind |-> "FlightMode",
             mode |-> PySlice(packet, 3, NegIndex(packet, 2))])

Dispatch(packet) ==
    LET packet_type == packet[3]
    IN  IF packet_type = LINK_STATISTICS THEN ParseLinkStatistics(packet)
        ELSE IF packet_type = BATTERY_SENSOR THEN ParseBattery(packet)
        ELSE IF packet_type = GPS THEN ParseGps(packet)
        ELSE IF packet_type = ATTITUDE THEN ParseAttitude(packet)
        ELSE IF packet_type = FLIGHT_MODE THEN ParseFlightMode(packet)
        ELSE Printed([kind |-> "Unknown", type |-> packet_type,
                      data |-> packet])

(***************************************************************************)
(* parse_crsf_packet(packet)                                               *)
(***************************************************************************)
parse_crsf_packet(packet) ==
    IF Len(packet) < 4
    THEN Printed([kind |-> "SkipInvalid", data |-> packet])
    ELSE IF packet[1] # CRSF_SYNC
    THEN Printed([kind |-> "SkipNonCRSF", data |-> packet])
    ELSE LET ok == crc8_check(packet)
         IN  IF ok.raised # "none" THEN Raised(ok.raised)
             ELSE IF ~ok.val
             THEN Printed([kind |-> "CRCMismatch", data |-> packet])
             ELSE Dispatch(packet)

(***************************************************************************)
(* State of read_crsf_serial.                                              *)
(*   wire    bytes waiting in the serial port (ser.in_waiting of them)     *)
(*   buffer  the rolling bytearray                                         *)
(*   packet  the candidate frame sliced off the buffer (line 113)          *)
(*   pc      "read" (line 102), "scan" (line 105), "parse" (line 115),     *)
(*           "crashed" (an exception left the function), "closed" (the     *)
(*           SerialException handler ran)                                  *)
(*   raised  the exception that ended the program, or "none"               *)
(*   out     the lines printed so far                                      *)
(* History, not read by the program:                                       *)
(*   fed     every byte appended to the buffer so far, in order            *)
(*   handed  the candidate frames passed to parse_crsf_packet, each with   *)
(*           the 0-based offset in fed of its first byte                   *)
(*   burstSent  whether the long burst has been delivered                  *)
(***************************************************************************)
VARIABLES wire, buffer, packet, pc, raised, out, fed, handed, burstSent

vars == <<wire, buffer, packet, pc, raised, out, fed, handed, burstSent>>

Init ==
    /\ wire = <<>>
    /\ buffer = <<>>
    /\ packet = <<>>
    /\ pc = "read"
    /\ raised = "none"
    /\ out = <<>>
    /\ fed = <<>>
    /\ handed = <<>>
    /\ burstSent = FALSE

Running == pc \in {"read", "scan", "parse"}

\* Single bytes delivered so far (the burst not counted)
Delivered == Len(fed) + Len(wire) - (IF burstSent THEN BurstLen ELSE 0)

(***************************************************************************)
(* The serial line: bytes arrive in the port's input queue at any time.    *)
(***************************************************************************)
Arrive ==
    /\ Running
    /\ Delivered < MaxStream
    /\ \E b \in Alphabet : wire' = Append(wire, b)
    /\ UNCHANGED <<buffer, packet, pc, raised, out, fed, handed, burstSent>>

ArriveBurst ==
    /\ Running
    /\ ~burstSent
    /\ Delivered >= BurstAfter
    /\ \E b \in BurstBytes : wire' = wire \o Burst(b)
    /\ burstSent' = TRUE
    /\ UNCHANGED <<buffer, packet, pc, raised, out, fed, handed>>

(***************************************************************************)
(* Lines 102-103: if ser.in_waiting > 0: buffer.extend(ser.read(...))      *)
(***************************************************************************)
ReadSerial ==
    /\ pc = "read"
    /\ IF Len(wire) > 0
       THEN /\ buffer' = buffer \o wire
            /\ fed' = fed \o wire
            /\ wire' = <<>>
       ELSE UNCHANGED <<buffer, fed, wire>>
    /\ pc' = "scan"
    /\ UNCHANGED <<packet, raised, out, handed, burstSent>>

\* Lines 119-120: the port fails; the handler prints and the function ends
SerialError ==
    /\ pc = "read"
    /\ pc' = "closed"
    /\ out' = Append(out, [kind |-> "SerialError"])
    /\ UNCHANGED <<wire, buffer, packet, raised, fed, handed, burstSent>>

(***************************************************************************)
(* Lines 105-117: one pass of `while len(buffer) >= 4`.                    *)
(***************************************************************************)
expected_len == buffer[2] + 2

\* Mutation: the lower bound of line 107 left out
BadLength_NoMinimum == expected_len > CRSF_MAX_PACKET_SIZE

\* Mutation: the upper bound of line 107 left out
BadLength_NoMaximum == expected_len < 4

BadLength == expected_len > CRSF_MAX_PACKET_SIZE \/ expected_len < 4

\* Mutation: the slice of line 114 keeps the front of the buffer and drops
\* its back
Remainder_DropsBack == PySlice(buffer, 0, Len(buffer) - expected_len)

\* Mutation: the slice of line 114 starts one byte early, so the last byte
\* of the frame stays in the buffer
Remainder_OffByOne == PySlice(buffer, expected_len - 1, Len(buffer))

\* buffer[expected_len:]
Remainder == PySlice(buffer, expected_len, Len(buffer))

\* Line 105: the loop condition fails
LoopExit ==
    /\ pc = "scan"
    /\ ~(Len(buffer) >= 4)
    /\ pc' = "read"
    /\ UNCHANGED <<wire, buffer, packet, raised, out, fed, handed, burstSent>>

\* Mutation: a bad length is reported and the loop goes on (continue) with
\* nothing removed from the buffer (two reports at most, which keeps the
\* state space finite)
ResetBuffer_Continues ==
    /\ pc = "scan"
    /\ Len(buffer) >= 4
    /\ BadLength
    /\ out' = Append(out, [kind |-> "BadLength", len |-> expected_len])
    /\ pc' = "scan"
    /\ Len(out) < 2
    /\ UNCHANGED <<wire, buffer, packet, raised, fed, handed, burstSent>>

\* Lines 107-110: bad length: print, buffer.clear(), break
ResetBuffer ==
    /\ pc = "scan"
    /\ Len(buffer) >= 4
    /\ BadLength
    /\ out' = Append(out, [kind |-> "BadLength", len |-> expected_len])
    /\ buffer' = <<>>
    /\ pc' = "read"
    /\ UNCHANGED <<wire, packet, raised, fed, handed, burstSent>>

\* Lines 112-114: packet = buffer[:expected_len]; buffer = buffer[expected_len:]
Extract ==
    /\ pc = "scan"
    /\ Len(buffer) >= 4
    /\ ~BadLength
    /\ Len(buffer) >= expected_len
    /\ packet' = PySlice(buffer, 0, expected_len)
    /\ buffer' = Remainder
    /\ handed' = Append(handed, [frame |-> PySlice(buffer, 0, expected_len),
                                 start |-> Len(fed) - Len(buffer)])
    /\ pc' = "parse"
    /\ UNCHANGED <<wire, raised, out, fed, burstSent>>

\* Mutation: an incomplete frame resets the buffer, as a bad length does
NeedMore_Clears ==
    /\ pc = "scan"
    /\ Len(buffer) >= 4
    /\ ~BadLength
    /\ ~(Len(buffer) >= expected_len)
    /\ buffer' = <<>>
    /\ pc' = "read"
    /\ UNCHANGED <<wire, packet, raised, out, fed, handed, burstSent>>

\* Lines 116-117: else: break
NeedMore ==
    /\ pc = "scan"
    /\ Len(buffer) >= 4
    /\ ~BadLength
    /\ ~(Len(buffer) >= expected_len)
    /\ pc' = "read"
    /\ UNCHANGED <<wire, buffer, packet, raised, out, fed, handed, burstSent>>

\* Mutation: a packet that is skipped or fails to decode also resets the
\* buffer
Parse_ResetsBuffer ==
    /\ pc = "parse"
    /\ LET r == parse_crsf_packet(packet)
       IN  IF r.raised = "none"
           THEN /\ out' = Append(out, r.line)
                /\ pc' = "scan"
                /\ UNCHANGED raised
           ELSE /\ raised' = r.raised
                /\ pc' = "crashed"
                /\ UNCHANGED out
    /\ buffer' = <<>>
    /\ UNCHANGED <<wire, packet, fed, handed, burstSent>>

\* Line 115: parse_crsf_packet(packet).  An exception other than
\* serial.SerialException is not caught (line 119) and ends the program.
Parse ==
    /\ pc = "parse"
    /\ LET r == parse_crsf_packet(packet)
       IN  IF r.raised = "none"
           THEN /\ out' = Append(out, r.line)
                /\ pc' = "scan"
                /\ UNCHANGED raised
           ELSE /\ raised' = r.raised
                /\ pc' = "crashed"
                /\ UNCHANGED out
    /\ UNCHANGED <<wire, buffer, packet, fed, handed, burstSent>>

Next ==
    \/ Arrive
    \/ ArriveBurst
    \/ ReadSerial
    \/ SerialError
    \/ LoopExit
    \/ ResetBuffer
    \/ Extract
    \/ NeedMore
    \/ Parse

Spec == Init /\ [][Next]_vars

(***************************************************************************)
(* Vocabulary of the properties.                                           *)
(***************************************************************************)
InRange(n) == n >= 4 /\ n <= CRSF_MAX_PACKET_SIZE

IsSuffix(s, t) ==
    Len(s) <= Len(t) /\ s = SubSeq(t, Len(t) - Len(s) + 1, Len(t))

\* One step of crc8_dvb_s2 on byte values, as a function so that each
\* application works on an evaluated checksum.
Crc8Step == [crc \in 0..255 |-> [byte \in 0..255 |->
                crc8_dvb_s2(crc, PyInt(byte)).val]]

\* CRC-8/DVB-S2 of a byte string: crc8_dvb_s2 applied byte by byte
RECURSIVE Crc8Bytes(_, _)
Crc8Bytes(crc, s) ==
    IF s = <<>> THEN crc
    ELSE Crc8Bytes(Crc8Step[crc][s[1]], Tail(s))

\* type + payload of a frame: offsets 2 .. Len-2 (0-based)
Body(f) == SubSeq(f, 3, Len(f) - 1)

\* f is a well-formed frame: sync, a length byte that matches, a valid CRC
WellFormed(f) ==
    /\ Len(f) >= 4
    /\ f[1] = CRSF_SYNC
    /\ Len(f) = f[2] + 2
    /\ InRange(Len(f))
    /\ Crc8Bytes(0, Body(f)) = f[Len(f)]

\* the positions of s at which a complete well-formed frame starts
FrameStarts(s) ==
    {i \in 1..Len(s) :
        /\ i + 1 <= Len(s)
        /\ i + s[i + 1] + 1 <= Len(s)
        /\ WellFormed(SubSeq(s, i, i + s[i + 1] + 1))}

FrameAt(s, i) == SubSeq(s, i, i + s[i + 1] + 1)

\* the frames handed to the decoder so far, in order
HandedFrames == [i \in 1..Len(handed) |-> handed[i].frame]

\* nothing is left to do with the bytes delivered so far: the drain loop
\* has ended (or the program has) and the port is empty
Quiescent == pc \in {"read", "crashed"} /\ wire = <<>>

\* a call that returned a decoded event or a diagnostic, checksum passed
ChecksumValid(r) ==
    r.raised = "none" /\ r.line.kind \notin {"CRCMismatch", "SkipInvalid", "SkipNonCRSF"}

ChecksumInvalid(r) == r.raised = "none" /\ r.line.kind = "CRCMismatch"

Pow2(k) == IF k = 0 THEN 1 ELSE IF k = 1 THEN 2 ELSE IF k = 2 THEN 4
           ELSE IF k = 3 THEN 8 ELSE IF k = 4 THEN 16 ELSE IF k = 5 THEN 32
           ELSE IF k = 6 THEN 64 ELSE 128

\* f with bit k of the byte at index p flipped
FlipBit(f, p, k) == [f EXCEPT ![p] = BitXor(f[p], Pow2(k))]

(***************************************************************************)
(* C1.  A pass of the extraction loop that finds a bad declared length at  *)
(* the front of a buffer starting with the sync byte removes exactly one   *)
(* byte from the front and keeps every other buffered byte.                *)
(* Refuted: ResetBuffer clears the whole buffer (line 109).                *)
(***************************************************************************)
C1_BadLengthDropsOneByte ==
    [][(/\ pc = "scan"
        /\ Len(buffer) >= 4
        /\ buffer[1] = CRSF_SYNC
        /\ ~InRange(buffer[2] + 2)
        /\ wire' = wire)
       => buffer' = Tail(buffer)]_vars

(***************************************************************************)
(* C2.  Once everything delivered has been drained, a stream that holds    *)
(* exactly one well-formed frame among noise has yielded exactly that      *)
(* frame to the decoder and no other candidate.                            *)
(* Refuted: there is no scan for the sync byte, so noise in front of the   *)
(* frame is read as a header.                                              *)
(***************************************************************************)
C2_OneFrameAmongNoise ==
    (Quiescent /\ Cardinality(FrameStarts(fed)) = 1)
    => \A i \in FrameStarts(fed) : HandedFrames = <<FrameAt(fed, i)>>

(***************************************************************************)
(* C3.  Every candidate frame removed from the buffer begins with the sync *)
(* byte 0xC8.                                                              *)
(* Refuted: the first buffer[1]+2 bytes are sliced off whatever buffer[0]  *)
(* is; parse_crsf_packet then skips the candidate (lines 52-54).           *)
(***************************************************************************)
C3_CandidateStartsWithSync ==
    \A i \in 1..Len(handed) : handed[i].frame[1] = CRSF_SYNC

(***************************************************************************)
(* C4.  An extraction takes exactly the first buffer[1]+2 bytes of the     *)
(* buffer as the candidate, that length is between 4 and 64, and the       *)
(* buffer afterwards is exactly the bytes that followed the frame.         *)
(***************************************************************************)
C4_ExtractTakesFront ==
    [][(pc = "scan" /\ pc' = "parse")
       => LET n == buffer[2] + 2
          IN  /\ InRange(n)
              /\ n <= Len(buffer)
              /\ packet' = SubSeq(buffer, 1, n)
              /\ buffer' = SubSeq(buffer, n + 1, Len(buffer))]_vars

\* a frame of the largest length has been extracted, with bytes after it
C4_Witness ==
    /\ pc = "parse"
    /\ Len(packet) = CRSF_MAX_PACKET_SIZE
    /\ buffer # <<>>

(***************************************************************************)
(* C5.  With an in-range declared length and fewer bytes buffered than     *)
(* that length, the extraction attempt ends the drain (more input is       *)
(* needed) and changes neither the buffer nor what has been handed on or   *)
(* printed.                                                                *)
(***************************************************************************)
C5_NeedMoreKeepsBuffer ==
    [][(/\ pc = "scan"
        /\ Len(buffer) >= 2
        /\ InRange(buffer[2] + 2)
        /\ Len(buffer) < buffer[2] + 2
        /\ wire' = wire)
       => (/\ pc' = "read"
           /\ buffer' = buffer
           /\ handed' = handed
           /\ out' = out
           /\ raised' = raised)]_vars

\* the drain has stopped on a header that is in range and incomplete
C5_Witness ==
    /\ pc = "read"
    /\ Len(buffer) >= 4
    /\ InRange(buffer[2] + 2)
    /\ Len(buffer) < buffer[2] + 2

(***************************************************************************)
(* C6.  The buffer is always a suffix of the bytes fed so far, in their    *)
(* order: bytes leave only from the front.                                 *)
(***************************************************************************)
C6_BufferIsSuffixOfFed == IsSuffix(buffer, fed)

\* bytes were fed, a frame was taken off the front, bytes remain
C6_Witness ==
    /\ Len(handed) >= 1
    /\ buffer # <<>>
    /\ Len(buffer) < Len(fed)
    /\ pc = "read"

(***************************************************************************)
(* C7.  The frames handed to the decoder occupy increasing, non-overlapping*)
(* byte ranges of the stream, each is the bytes of its range, and each is  *)
(* one frame of its own declared length (no two merged).                   *)
(***************************************************************************)
C7_FramesInStreamOrder ==
    \A i \in 1..Len(handed) :
        LET f == handed[i].frame
            a == handed[i].start
        IN  /\ a >= 0
            /\ a + Len(f) <= Len(fed)
            /\ f = SubSeq(fed, a + 1, a + Len(f))
            /\ Len(f) = f[2] + 2
            /\ i < Len(handed) => a + Len(f) <= handed[i + 1].start

\* two different frames have been handed on
C7_Witness ==
    /\ Len(handed) >= 2
    /\ handed[1].frame # handed[2].frame

(***************************************************************************)
(* C8.  When the stream fed from an empty buffer is one complete frame,    *)
(* whatever its chunking (byte by byte, or all at once), the result is the *)
(* single decoded event of that frame.                                     *)
(* Refuted: every chunking ends in the TypeError of crc8_check (C9), so no *)
(* event is produced at all.                                               *)
(***************************************************************************)
C8_PartialFeedSameEvent ==
    (Quiescent /\ WellFormed(fed))
    => /\ raised = "none"
       /\ HandedFrames = <<fed>>
       /\ Len(out) = 1
       /\ out[1].kind \notin {"CRCMismatch", "SkipInvalid", "SkipNonCRSF", "BadLength"}

(***************************************************************************)
(* C9.  A candidate frame starting with the sync byte is reported          *)
(* checksum-valid if and only if the CRC-8/DVB-S2 of its bytes at offsets  *)
(* 2 .. length-2 equals its last byte.                                     *)
(* Refuted: crc8_check passes the slice, not its bytes, to crc8_dvb_s2,    *)
(* which raises TypeError; no frame is ever reported valid.                *)
(***************************************************************************)
C9_ValidIffCrcMatches ==
    (pc = "parse" /\ packet[1] = CRSF_SYNC)
    => LET ok == crc8_check(packet)
       IN  (ok.raised = "none" /\ ok.val)
           <=> (Crc8Bytes(0, Body(packet)) = packet[Len(packet)])

(***************************************************************************)
(* C10.  A frame whose last byte is the CRC-8/DVB-S2 of its type and       *)
(* payload decodes as checksum-valid, and with any single bit of type or   *)
(* payload flipped it decodes as checksum-invalid.                         *)
(* Refuted: parse_crsf_packet raises TypeError in crc8_check (C9).         *)
(***************************************************************************)
C10_ChecksumRoundTrip ==
    (pc = "parse" /\ WellFormed(packet))
    => /\ ChecksumValid(parse_crsf_packet(packet))
       /\ \A p \in 3..(Len(packet) - 1) : \A k \in 0..7 :
              ChecksumInvalid(parse_crsf_packet(FlipBit(packet, p, k)))

(***************************************************************************)
(* C11.  No decode of a candidate frame raises: whatever the frame's bytes,*)
(* the program goes on to the frames that follow.                          *)
(* Refuted: the TypeError of crc8_check (C9) is not caught by line 119 and *)
(* ends read_crsf_serial on the first candidate that starts with 0xC8.     *)
(***************************************************************************)
C11_DecodeNeverStopsPipeline == pc # "crashed" /\ raised = "none"

\* the frame's type is one whose fields need a minimum payload, and the
\* payload (Len - 4 bytes) is shorter than it
MinPayload(type) ==
    IF type = GPS THEN 15
    ELSE IF type = BATTERY_SENSOR THEN 2
    ELSE IF type = LINK_STATISTICS THEN 4
    ELSE IF type = ATTITUDE THEN 6
    ELSE 0

Recognized == {GPS, BATTERY_SENSOR, LINK_STATISTICS, ATTITUDE, FLIGHT_MODE}

Payload(f) == SubSeq(f, 4, Len(f) - 1)

(***************************************************************************)
(* C12.  A checksum-valid frame of type GPS, Battery, Link Statistics or   *)
(* Attitude whose payload is shorter than its fields yields a              *)
(* MalformedPayload diagnostic for its type and no telemetry.              *)
(* Refuted: parse_crsf_packet raises TypeError (C9); the dispatch behind   *)
(* it has no length check either.                                          *)
(***************************************************************************)
C12_ShortPayloadIsMalformed ==
    (/\ pc = "parse"
     /\ WellFormed(packet)
     /\ Len(Payload(packet)) < MinPayload(packet[3]))
    => LET r == parse_crsf_packet(packet)
       IN  /\ r.raised = "none"
           /\ r.line.kind = "MalformedPayload"
           /\ r.line.type = packet[3]

(***************************************************************************)
(* C13.  A candidate frame that starts with the sync byte and whose last   *)
(* byte is not the CRC of its type and payload yields the ChecksumMismatch *)
(* diagnostic carrying the raw frame, whatever its type.                   *)
(* Refuted: parse_crsf_packet raises TypeError in crc8_check (C9) before   *)
(* line 57 can print the mismatch.                                         *)
(***************************************************************************)
C13_MismatchIsDiagnosed ==
    (/\ pc = "parse"
     /\ packet[1] = CRSF_SYNC
     /\ Crc8Bytes(0, Body(packet)) # packet[Len(packet)])
    => parse_crsf_packet(packet)
           = Printed([kind |-> "CRCMismatch", data |-> packet])

(***************************************************************************)
(* C14.  A checksum-valid frame whose type is not a recognized kind yields *)
(* the Unknown event with that type and the frame's payload bytes.         *)
(* Refuted: parse_crsf_packet raises TypeError in crc8_check (C9).         *)
(***************************************************************************)
C14_UnknownTypePassesThrough ==
    (/\ pc = "parse"
     /\ WellFormed(packet)
     /\ packet[3] \notin Recognized)
    => LET r == parse_crsf_packet(packet)
       IN  /\ r.raised = "none"
           /\ r.line.kind = "Unknown"
           /\ r.line.type = packet[3]
           /\ Payload(r.line.data) = Payload(packet)

(***************************************************************************)
(* C15.  Every pass of the extraction loop either strictly shrinks the     *)
(* buffer (a frame is taken off, or a bad length empties it) or ends the   *)
(* drain with the buffer unchanged; a buffer of 4 bytes or more that       *)
(* begins with 0xC8 and an out-of-range length always shrinks.  The length *)
(* of the buffer is thus a variant of the drain: it cannot go on without   *)
(* consuming input.                                                        *)
(***************************************************************************)
C15_DrainMakesProgress ==
    [][(pc = "scan" /\ wire' = wire)
       => /\ \/ Len(buffer') < Len(buffer)
             \/ pc' = "read" /\ buffer' = buffer
          /\ (/\ Len(buffer) >= 4
              /\ buffer[1] = CRSF_SYNC
              /\ ~InRange(buffer[2] + 2)) => Len(buffer') < Len(buffer)]_vars

\* a buffer that began with 0xC8 and a bad length has been emptied
C15_Witness ==
    /\ pc = "read"
    /\ buffer = <<>>
    /\ handed = <<>>
    /\ Len(fed) >= 4
    /\ fed[1] = CRSF_SYNC
    /\ out = <<[kind |-> "BadLength", len |-> fed[2] + 2]>>

(***************************************************************************)
(* Decoding on its own: the program at line 115, about to decode a frame   *)
(* that one read delivered into an empty buffer.  The frames are built     *)
(* from the wire format (sync, length, type, payload, CRC) over field      *)
(* values that include the signed and unsigned extremes.                   *)
(***************************************************************************)
Be16(v) == <<v \div 256, v % 256>>

U32(v) == <<v \div 16777216, (v \div 65536) % 256, (v \div 256) % 256, v % 256>>

\* two's complement, without leaving the 32-bit range
Be32(v) == IF v >= 0 THEN U32(v) ELSE [i \in 1..4 |-> 255 - U32((-v) - 1)[i]]

MakeFrame(type, payload) ==
    <<CRSF_SYNC, Len(payload) + 2, type>> \o payload
        \o <<Crc8Bytes(0, <<type>> \o payload)>>

GpsLat == {377749000, 0, -1}

GpsLon == {-1224194000, 1}

GpsSpeed == {360, 0}

GpsHeading == {0, 65535}

GpsAltitude == {2000, 0}

GpsSats == {12, 255}

GpsFrame(lat, lon, gs, hd, alt, sats) ==
    MakeFrame(GPS, Be32(lat) \o Be32(lon) \o Be16(gs) \o Be16(hd)
                   \o Be16(alt) \o <<sats>>)

LinkRssi == {0, 200}

LinkQuality == {100, 255}

LinkSnr == {0, 127, 128, 255}

LinkFrame(r1, r2, lq, b) == MakeFrame(LINK_STATISTICS, <<r1, r2, lq, b>>)

\* "ACRO" with a terminating null, without one, "AC" with two nulls, a
\* lone null, and no text at all
FlightModePayloads ==
    {<<65, 67, 82, 79, 0>>, <<65, 67, 82, 79>>, <<65, 67, 0, 0>>, <<0>>, <<>>}

DecodeFrames ==
    {GpsFrame(lat, lon, gs, hd, alt, sats) :
        lat \in GpsLat, lon \in GpsLon, gs \in GpsSpeed,
        hd \in GpsHeading, alt \in GpsAltitude, sats \in GpsSats}
    \cup {LinkFrame(r1, r2, lq, b) :
        r1 \in LinkRssi, r2 \in LinkRssi, lq \in LinkQuality, b \in LinkSnr}
    \cup {MakeFrame(FLIGHT_MODE, p) : p \in FlightModePayloads}

InitDecode ==
    /\ wire = <<>>
    /\ buffer = <<>>
    /\ packet \in DecodeFrames
    /\ pc = "parse"
    /\ raised = "none"
    /\ out = <<>>
    /\ fed = packet
    /\ handed = <<[frame |-> packet, start |-> 0]>>
    /\ burstSent = FALSE

NextDecode == Parse

SpecDecode == InitDecode /\ [][NextDecode]_vars

(***************************************************************************)
(* C16.  A checksum-valid GPS frame decodes to lat and lon (signed 32-bit, *)
(* payload offsets 0-3 and 4-7, over 1e7), speed (unsigned 16-bit at 8-9,  *)
(* over 36), altitude (unsigned 16-bit at 12-13, minus 1000) and           *)
(* satellites (offset 14); the heading at 10-11 is not used.  The payload  *)
(* 377749000, -1224194000, 360, 0, 2000, 12 is one of the frames.          *)
(* Refuted: parse_crsf_packet raises TypeError in crc8_check (C9).         *)
(***************************************************************************)
C16_GpsFields ==
    pc # "parse"
    => \A lat \in GpsLat, lon \in GpsLon, gs \in GpsSpeed, hd \in GpsHeading,
          alt \in GpsAltitude, sats \in GpsSats :
          packet = GpsFrame(lat, lon, gs, hd, alt, sats)
          => /\ raised = "none"
             /\ out = <<[kind |-> "GPS", lat |-> Ratio(lat, 10000000),
                         lon |-> Ratio(lon, 10000000),
                         speed |-> Ratio(gs, 36),
                         altitude |-> alt - 1000, sats |-> sats]>>

\* Lines 73-79 taken alone (the checksum assumed passed) give these fields
GpsDispatchFields ==
    pc = "parse"
    => \A lat \in GpsLat, lon \in GpsLon, gs \in GpsSpeed, hd \in GpsHeading,
          alt \in GpsAltitude, sats \in GpsSats :
          packet = GpsFrame(lat, lon, gs, hd, alt, sats)
          => Dispatch(packet)
                 = Printed([kind |-> "GPS", lat |-> Ratio(lat, 10000000),
                            lon |-> Ratio(lon, 10000000),
                            speed |-> Ratio(gs, 36),
                            altitude |-> alt - 1000, sats |-> sats])

(***************************************************************************)
(* C17.  A checksum-valid Link Statistics frame decodes to rssi1, rssi2    *)
(* and link quality as the unsigned bytes at payload offsets 0, 1, 2, and  *)
(* snr as the byte at offset 3 read signed: b >= 128 gives b - 256.        *)
(* Refuted: parse_crsf_packet raises TypeError in crc8_check (C9).         *)
(***************************************************************************)
C17_LinkStatisticsFields ==
    pc # "parse"
    => \A r1 \in LinkRssi, r2 \in LinkRssi, lq \in LinkQuality, b \in LinkSnr :
          packet = LinkFrame(r1, r2, lq, b)
          => /\ raised = "none"
             /\ out = <<[kind |-> "LinkStatistics", rssi1 |-> r1,
                         rssi2 |-> r2, lq |-> lq,
                         snr |-> IF b >= 128 THEN b - 256 ELSE b]>>

\* Lines 62-67 taken alone (the checksum assumed passed) give these fields
LinkDispatchFields ==
    pc = "parse"
    => \A r1 \in LinkRssi, r2 \in LinkRssi, lq \in LinkQuality, b \in LinkSnr :
          packet = LinkFrame(r1, r2, lq, b)
          => Dispatch(packet)
                 = Printed([kind |-> "LinkStatistics", rssi1 |-> r1,
                            rssi2 |-> r2, lq |-> lq,
                            snr |-> IF b >= 128 THEN b - 256 ELSE b])

\* s without its trailing control bytes (below 0x20, or 0x7F)
RECURSIVE TrimControl(_)
TrimControl(s) ==
    IF s = <<>> THEN <<>>
    ELSE IF s[Len(s)] < 32 \/ s[Len(s)] = 127
    THEN TrimControl(SubSeq(s, 1, Len(s) - 1))
    ELSE s

(***************************************************************************)
(* C18.  A checksum-valid Flight Mode frame decodes to the text of its     *)
(* payload with exactly the trailing control bytes removed.                *)
(* Refuted: parse_crsf_packet raises TypeError in crc8_check (C9); line 88 *)
(* behind it drops the last payload byte whatever it is and trims nothing  *)
(* else.                                                                   *)
(***************************************************************************)
C18_FlightModeText ==
    (pc # "parse" /\ WellFormed(packet) /\ packet[3] = FLIGHT_MODE)
    => /\ raised = "none"
       /\ out = <<[kind |-> "FlightMode", mode |-> TrimControl(Payload(packet))]>>

\* Line 88 taken alone (the checksum assumed passed): the payload less its
\* last byte
FlightModeDispatchText ==
    (pc = "parse" /\ WellFormed(packet) /\ packet[3] = FLIGHT_MODE)
    => Dispatch(packet)
           = Printed([kind |-> "FlightMode",
                      mode |-> SubSeq(Payload(packet), 1, Len(Payload(packet)) - 1)])

(***************************************************************************)
(* C19.  Whenever the drain has stopped and the loop waits for input, the  *)
(* buffer holds fewer than 64 bytes and no complete in-range frame at its  *)
(* front: it has fewer than 4 bytes, or it is a strict prefix of a frame   *)
(* whose declared total length is between 4 and 64.                        *)
(***************************************************************************)
C19_WaitingBufferIsBounded ==
    pc = "read"
    => /\ Len(buffer) < CRSF_MAX_PACKET_SIZE
       /\ \/ Len(buffer) < 4
          \/ /\ InRange(buffer[2] + 2)
             /\ Len(buffer) < buffer[2] + 2

\* the longest wait: 63 bytes of a frame that declares 64
C19_Witness ==
    /\ pc = "read"
    /\ Len(buffer) = CRSF_MAX_PACKET_SIZE - 1
    /\ buffer[2] + 2 = CRSF_MAX_PACKET_SIZE
    /\ fed = buffer

\* what the decodes so far have printed, one line per frame handed over
DecodeLines ==
    SelectSeq(out, LAMBDA l : l.kind \notin {"BadLength", "SerialError"})

====
